---------------------------- MODULE Spec2Model ----------------------------
(***************************************************************************)
(* Model of the WhatsApp webhook -> RabbitMQ relay (src/index.js).         *)
(*                                                                         *)
(* src/index.js holds two builds of the relay:                             *)
(*   - lines    1-1218: signature / user-agent build ("aggressive")        *)
(*   - lines 1220-1418: simple build ("simple")                            *)
(* The build is a field of the configuration record cfg, fixed at start.   *)
(*                                                                         *)
(* Text is modelled as sequences of tokens: a JSON body is a sequence of   *)
(* lexical tokens, a header is a sequence of characters or of the parts    *)
(* that split(" ") yields. An absent header is the empty sequence / the    *)
(* empty string, which the code's `!x` tests treat like undefined.         *)
(***************************************************************************)
EXTENDS Integers, Sequences, FiniteSets, TLC

VARIABLES
    cfg,          \* environment configuration, read once at start
    channel,      \* let channel      (0 = null, else id of the connection object that owns it)
    connection,   \* let connection   (0 = null, else id of a connection object)
    isConnecting, \* let isConnecting
    retryCount,   \* let retryCount
    timers,       \* number of pending setTimeout(connectRabbit, 5000)
    pc,           \* position of the running connectRabbit() call ("idle" = none)
    conns,        \* the amqplib connection objects: id -> state
    managerLog,   \* the last line the connection manager wrote to the log
    postHits,     \* hits the POST rate limiter counted for the caller in this window
    stage,        \* lifecycle of the HTTP POST in flight
    request,      \* the POST in flight (headers, raw body, parsed body)
    response,     \* the response sent for it
    getHits,      \* hits the GET rate limiter counted for the caller in this window
    handshake,    \* the last GET /webhook/whatsapp of the caller and its answer
    probe         \* an address and a range given to isIPInCIDR, and what it returned

vars == <<cfg, channel, connection, isConnecting, retryCount, timers, pc,
          conns, managerLog, postHits, stage, request, response, getHits, handshake,
          probe>>

managerVars == <<channel, connection, isConnecting, retryCount, timers, pc, conns,
                 managerLog>>

getVars == <<getHits, handshake, probe>>

httpVars == <<postHits, stage, request, response, getHits, handshake, probe>>

NULL == 0

\* ------------------------------------------------------------------ bounds

\* connection objects that may exist at once (open, or closed but still referenced)
MaxConn == 2

\* failed attempts counted before further failures are cut off
MaxRetry == 5

\* configured RATE_LIMIT_POST_MAX (requests allowed per window)
MaxPostRate == 2

\* configured RATE_LIMIT_GET_MAX (requests allowed per window)
MaxGetRate == 2

\* longest hub.challenge sent, in characters
MaxChallengeLen == 2

ConnIds == 1..MaxConn

\* ------------------------------------------------------------------ JSON text

WS == "ws"

ScalarToks == {"1", "0", "'a'", "''", "null"}

\* raw.toString() with insignificant whitespace skipped, as the JSON grammar does
RECURSIVE StripWs(_)
StripWs(raw) ==
    IF raw = <<>> THEN <<>>
    ELSE IF Head(raw) = WS THEN StripWs(Tail(raw))
    ELSE <<Head(raw)>> \o StripWs(Tail(raw))

Inner(t) == SubSeq(t, 2, Len(t) - 1)

\* value ( "," value )*  over scalar values
RECURSIVE ElementsOK(_)
ElementsOK(t) ==
    \/ Len(t) = 1 /\ t[1] \in ScalarToks
    \/ Len(t) >= 3 /\ t[1] \in ScalarToks /\ t[2] = "," /\ ElementsOK(SubSeq(t, 3, Len(t)))

\* string ":" value ( "," string ":" value )*  over scalar values
RECURSIVE MembersOK(_)
MembersOK(t) ==
    \/ Len(t) = 3 /\ t[1] \in {"'a'", "''"} /\ t[2] = ":" /\ t[3] \in ScalarToks
    \/ Len(t) >= 7 /\ t[1] \in {"'a'", "''"} /\ t[2] = ":" /\ t[3] \in ScalarToks
                   /\ t[4] = "," /\ MembersOK(SubSeq(t, 5, Len(t)))

ScalarType(tok) ==
    CASE tok = "null" -> "null"
      [] tok \in {"1", "0"} -> "number"
      [] OTHER -> "string"

SyntaxError == [ok |-> FALSE, type |-> "error", toks |-> <<>>]

\* JSON.parse(text): the value, or a thrown SyntaxError
JSONParse(raw) ==
    LET t == StripWs(raw) IN
    IF Len(t) = 1 /\ t[1] \in ScalarToks
        THEN [ok |-> TRUE, type |-> ScalarType(t[1]), toks |-> t]
    ELSE IF Len(t) >= 2 /\ t[1] = "{" /\ t[Len(t)] = "}"
            /\ (Len(t) = 2 \/ MembersOK(Inner(t)))
        THEN [ok |-> TRUE, type |-> "object", toks |-> Inner(t)]
    ELSE IF Len(t) >= 2 /\ t[1] = "[" /\ t[Len(t)] = "]"
            /\ (Len(t) = 2 \/ ElementsOK(Inner(t)))
        THEN [ok |-> TRUE, type |-> "array", toks |-> Inner(t)]
    ELSE SyntaxError

\* JSON.stringify(value): the canonical text, no whitespace
JSONStringify(v) ==
    CASE v.type = "object" -> <<"{">> \o v.toks \o <<"}">>
      [] v.type = "array"  -> <<"[">> \o v.toks \o <<"]">>
      [] OTHER -> v.toks

EmptyObject == [ok |-> TRUE, type |-> "object", toks |-> <<>>]

\* !payload
Falsy(v) ==
    \/ v.type = "null"
    \/ v.type = "number" /\ v.toks = <<"0">>
    \/ v.type = "string" /\ v.toks = <<"''">>

\* typeof payload
Typeof(v) ==
    CASE v.type \in {"object", "array", "null"} -> "object"
      [] OTHER -> v.type

\* the request bodies sent to the relay
RawBodyList ==
    << <<"{", "'a'", ":", "1", "}">>,                  \* {"a":1}
       <<"{", WS, "'a'", ":", WS, "1", WS, "}">>,      \* { "a": 1 }
       <<"{", "}">>,                                   \* {}
       <<"[", "1", "]">>,                              \* [1]
       <<"'a'">>,                                      \* "a"
       <<"1">>,                                        \* 1
       <<"null">>,                                     \* null
       <<"{", "'a'", ":">>                             \* {"a":   (truncated)
    >>

RawBodies == {RawBodyList[i] : i \in 1..Len(RawBodyList)}

\* ------------------------------------------------------------------ signature

HexDigits == <<"0", "1", "2", "3", "4", "5", "6", "7",
               "8", "9", "a", "b", "c", "d", "e", "f">>

UpperHex == <<"0", "1", "2", "3", "4", "5", "6", "7",
              "8", "9", "A", "B", "C", "D", "E", "F">>

\* value of one hex character, -1 if it is none
HexValue(c) ==
    IF \E i \in 1..16 : HexDigits[i] = c
        THEN (CHOOSE i \in 1..16 : HexDigits[i] = c) - 1
    ELSE IF \E i \in 1..16 : UpperHex[i] = c
        THEN (CHOOSE i \in 1..16 : UpperHex[i] = c) - 1
    ELSE -1

\* Buffer.from(text, 'hex'): decodes pairs of hex characters and stops at the
\* first pair that is not hex; an odd last character is dropped
RECURSIVE HexDecode(_)
HexDecode(s) ==
    IF Len(s) < 2 THEN <<>>
    ELSE IF HexValue(s[1]) < 0 \/ HexValue(s[2]) < 0 THEN <<>>
    ELSE <<16 * HexValue(s[1]) + HexValue(s[2])>> \o HexDecode(Tail(Tail(s)))

\* digest('hex')
RECURSIVE HexEncode(_)
HexEncode(bytes) ==
    IF bytes = <<>> THEN <<>>
    ELSE <<HexDigits[(Head(bytes) \div 16) + 1], HexDigits[(Head(bytes) % 16) + 1]>>
         \o HexEncode(Tail(bytes))

TheAppSecret == "app-secret"

OtherSecret == "other-secret"

SecretIndex(secret) == IF secret = TheAppSecret THEN 1 ELSE 2

BodyIndex(raw) == CHOOSE i \in 1..Len(RawBodyList) : RawBodyList[i] = raw

\* crypto.createHmac('sha256', secret).update(body): the digest bytes. The hash
\* is idealised as collision-free: two bytes that name the key and the text.
HmacSha256(secret, raw) == <<160 + SecretIndex(secret), 176 + BodyIndex(raw)>>

\* signature.replace(/^sha256=/, '')
StripSha256Prefix(signature) ==
    IF signature # <<>> /\ Head(signature) = "sha256=" THEN Tail(signature) ELSE signature

validateHubSignature(signature, body, secret) ==
    IF signature = <<>> \/ secret = "" THEN FALSE
    ELSE LET receivedHash   == StripSha256Prefix(signature)
             calculatedHash == HexEncode(HmacSha256(secret, body))
             received       == HexDecode(receivedHash)
             calculated     == HexDecode(calculatedHash)
         IN  \* crypto.timingSafeEqual throws on buffers of different length;
             \* the catch block turns that into false
             IF Len(received) # Len(calculated) THEN FALSE
             ELSE received = calculated

RECURSIVE ToUpperHex(_)
ToUpperHex(s) ==
    IF s = <<>> THEN <<>>
    ELSE <<UpperHex[HexValue(Head(s)) + 1]>> \o ToUpperHex(Tail(s))

\* the x-hub-signature-256 headers a caller may send with a given body
SignatureHeaders(raw) ==
    LET good == HexEncode(HmacSha256(TheAppSecret, raw)) IN
    { <<>>,                                                       \* absent
      <<"sha256=">> \o good,                                      \* as Meta sends it
      good,                                                       \* without the prefix
      <<"sha256=">> \o ToUpperHex(good),                          \* upper-case hex
      <<"sha256=">> \o good \o <<"z", "z">>,                      \* hash, then non-hex text
      <<"sha256=">> \o SubSeq(good, 1, 2),                        \* truncated hash
      <<"sha256=">> \o HexEncode(HmacSha256(OtherSecret, raw)),   \* signed with another key
      <<"sha256=">> \o HexEncode(HmacSha256(TheAppSecret, RawBodyList[3])) \* hash of {}
    }

\* ------------------------------------------------------------------ caller address

\* 2^n
RECURSIVE Pow2(_)
Pow2(n) == IF n = 0 THEN 1 ELSE 2 * Pow2(n - 1)

\* IPv4 branch of isIPInCIDR: (ipNum & mask) === (rangeNum & mask) with
\* mask = ~(2^(32 - maskBits) - 1). The 32-bit words are kept as two 16-bit
\* halves; the mask clears the low 32 - maskBits bits of the word.
MaskedHigh(ip, maskBits) ==
    LET high == ip[1] * 256 + ip[2] IN
    IF maskBits >= 16 THEN high ELSE high - (high % Pow2(16 - maskBits))

MaskedLow(ip, maskBits) ==
    LET low == ip[3] * 256 + ip[4] IN
    IF maskBits <= 16 THEN 0 ELSE low - (low % Pow2(32 - maskBits))

\* the "::" of an IPv6 text; an address is held as the sequence of its parts:
\* four octets for "a.b.c.d", the groups (canonical lower-case hex without
\* leading zeros, held by value) and the "::" for an IPv6 text
DoubleColon == -1

\* ip.includes('.') / ip.includes(':')
Family(addr) ==
    IF addr = <<>> THEN "none"
    ELSE IF Len(addr) = 4 /\ \A i \in 1..4 : addr[i] # DoubleColon THEN "v4"
    ELSE "v6"

\* position of the "::" in an IPv6 text, 0 when there is none
GapIndex(addr) ==
    IF \E i \in 1..Len(addr) : addr[i] = DoubleColon
        THEN CHOOSE i \in 1..Len(addr) :
                 addr[i] = DoubleColon /\ \A j \in 1..(i - 1) : addr[j] # DoubleColon
        ELSE 0

\* normalizeIPv6: "::" is replaced by as many "0" groups as make eight
normalizeIPv6(addr) ==
    LET k == GapIndex(addr) IN
    IF k = 0 THEN addr
    ELSE LET left  == SubSeq(addr, 1, k - 1)
             right == SubSeq(addr, k + 1, Len(addr))
             zeros == 8 - Len(left) - Len(right)
         IN  left \o [i \in 1..zeros |-> 0] \o right

\* Array.prototype.slice(0, n)
SliceTo(seq, n) == SubSeq(seq, 1, IF n < Len(seq) THEN n ELSE Len(seq))

isIPInCIDR(ip, cidr) ==
    IF Family(ip) = "v4" /\ cidr.family = "v4"
        THEN /\ MaskedHigh(ip, cidr.bits) = MaskedHigh(cidr.range, cidr.bits)
             /\ MaskedLow(ip, cidr.bits) = MaskedLow(cidr.range, cidr.bits)
    ELSE IF Family(ip) = "v6" /\ cidr.family = "v6"
        \* the first floor(maskBits / 16) groups are compared as text
        THEN SliceTo(normalizeIPv6(ip), cidr.bits \div 16)
               = SliceTo(normalizeIPv6(cidr.range), cidr.bits \div 16)
    ELSE FALSE   \* the address and the range are of different families

\* the IPv6 ranges are 2a03:2880::/32 and 2620:0:1c00::/40
META_IP_RANGES ==
    { [family |-> "v6", range |-> <<10755, 10368, DoubleColon>>, bits |-> 32],
      [family |-> "v6", range |-> <<9760, 0, 7168, DoubleColon>>, bits |-> 40],
      [family |-> "v4", range |-> <<31, 13, 24, 0>>, bits |-> 21],
      [family |-> "v4", range |-> <<31, 13, 64, 0>>, bits |-> 18],
      [family |-> "v4", range |-> <<66, 220, 144, 0>>, bits |-> 20],
      [family |-> "v4", range |-> <<69, 63, 176, 0>>, bits |-> 20],
      [family |-> "v4", range |-> <<69, 171, 224, 0>>, bits |-> 19],
      [family |-> "v4", range |-> <<74, 119, 76, 0>>, bits |-> 22],
      [family |-> "v4", range |-> <<103, 4, 96, 0>>, bits |-> 22],
      [family |-> "v4", range |-> <<157, 240, 0, 0>>, bits |-> 16],
      [family |-> "v4", range |-> <<173, 252, 64, 0>>, bits |-> 18],
      [family |-> "v4", range |-> <<179, 60, 192, 0>>, bits |-> 22],
      [family |-> "v4", range |-> <<185, 60, 216, 0>>, bits |-> 22],
      [family |-> "v4", range |-> <<204, 15, 20, 0>>, bits |-> 22] }

isValidMetaIP(ip) ==
    IF ip = <<>> THEN FALSE
    ELSE \E range \in META_IP_RANGES : isIPInCIDR(ip, range)

\* mutant of getClientIP: the proxy headers are ignored
getClientIPOfTransport(req) == req.ip

\* the caller address the handler evaluates: the first present of the proxy
\* headers, else the transport address (x-forwarded-for is held as its list of
\* comma-separated entries)
getClientIP(req) ==
    IF req.cfConnectingIp # <<>> THEN req.cfConnectingIp
    ELSE IF req.xRealIp # <<>> THEN req.xRealIp
    ELSE IF req.xForwardedFor # <<>> /\ Head(req.xForwardedFor) # <<>>
        THEN Head(req.xForwardedFor)
    ELSE req.ip

\* caller addresses: inside and outside the Meta ranges
ClientIPs == { <<157, 240, 1, 1>>, <<31, 13, 32, 0>>, <<10, 0, 0, 1>> }

\* addresses at the edges of the Meta ranges: the first and the last address of
\* 157.240.0.0/16, 31.13.24.0/21, 2a03:2880::/32 and 2620:0:1c00::/40, and the
\* addresses next to them on the outside
ProbeIPs ==
    { <<157, 240, 0, 0>>, <<157, 240, 255, 255>>, <<157, 239, 255, 255>>, <<157, 241, 0, 0>>,
      <<31, 13, 24, 0>>, <<31, 13, 31, 255>>, <<31, 13, 23, 255>>, <<31, 13, 32, 0>>,
      <<10, 0, 0, 1>>,
      \* 2a03:2880::, 2a03:2880:ffff:..., 2a03:287f:ffff:..., 2a03:2881::
      <<10755, 10368, DoubleColon>>,
      <<10755, 10368, 65535, 65535, 65535, 65535, 65535, 65535>>,
      <<10755, 10367, 65535, 65535, 65535, 65535, 65535, 65535>>,
      <<10755, 10369, DoubleColon>>,
      \* 2620:0:1c00::, 2620:0:1cff:ffff:..., 2620:0:1bff:ffff:..., 2620:0:1d00::
      <<9760, 0, 7168, DoubleColon>>,
      <<9760, 0, 7423, 65535, 65535, 65535, 65535, 65535>>,
      <<9760, 0, 7167, 65535, 65535, 65535, 65535, 65535>>,
      <<9760, 0, 7424, DoubleColon>>,
      <<DoubleColon, 1>> }

NoProbe == [ip |-> <<>>, cidr |-> [family |-> "none", range |-> <<>>, bits |-> 0],
            done |-> FALSE, result |-> FALSE]

\* isIPInCIDR is called with the address and the range of the probe
CheckCIDR ==
    /\ probe.ip # <<>>
    /\ ~probe.done
    /\ probe' = [probe EXCEPT !.done = TRUE, !.result = isIPInCIDR(probe.ip, probe.cidr)]
    /\ UNCHANGED <<cfg, managerVars, postHits, stage, request, response, getHits, handshake>>

\* ------------------------------------------------------------------ bearer token

TheWebhookSecret == "webhook-secret"

\* Authorization headers, as the parts authHeader.split(" ") yields
AuthHeaders ==
    { <<>>,                                   \* absent
      <<"Bearer", TheWebhookSecret>>,         \* the configured secret
      <<"Bearer", "wrong-token">>,            \* another token
      <<"Basic", TheWebhookSecret>>,          \* wrong scheme
      <<TheWebhookSecret>> }                  \* no scheme

\* validateWebhookSecret(req, res, next): 0 when it calls next(), else the status
validateWebhookSecret(req, WEBHOOK_SECRET) ==
    IF WEBHOOK_SECRET = "" THEN 0
    ELSE IF req.authorization = <<>> THEN 401
    ELSE IF Len(req.authorization) # 2 \/ req.authorization[1] # "Bearer" THEN 401
    ELSE IF req.authorization[2] # WEBHOOK_SECRET THEN 401
    ELSE 0

\* ------------------------------------------------------------------ configuration

META_USER_AGENT == "facebookexternalua"

UserAgents == {META_USER_AGENT, "curl/8.0", ""}

\* process.env as the two builds read it
AggressiveConfigs ==
    { [variant |-> "aggressive", WEBHOOK_SECRET |-> ws, APP_SECRET |-> as,
       META_IP_VALIDATION_MODE |-> m[1], IS_PRODUCTION |-> m[2],
       RATE_LIMIT_ENABLED |-> rl, RATE_LIMIT_POST_MAX |-> MaxPostRate,
       RATE_LIMIT_GET_MAX |-> MaxGetRate] :
        ws \in {"", TheWebhookSecret}, as \in {"", TheAppSecret},
        m \in {<<"monitor", TRUE>>, <<"disabled", TRUE>>,
               <<"block", TRUE>>, <<"block", FALSE>>},
        rl \in BOOLEAN }

\* the simple build reads none of the secrets and mounts no rate limiter
SimpleConfig ==
    [variant |-> "simple", WEBHOOK_SECRET |-> "", APP_SECRET |-> "",
     META_IP_VALIDATION_MODE |-> "disabled", IS_PRODUCTION |-> TRUE,
     RATE_LIMIT_ENABLED |-> FALSE, RATE_LIMIT_POST_MAX |-> MaxPostRate,
     RATE_LIMIT_GET_MAX |-> MaxGetRate]

Configs == AggressiveConfigs \cup {SimpleConfig}

\* ------------------------------------------------------------------ broker connection manager

ClosedConn == [open |-> FALSE, channelOpen |-> FALSE, handlers |-> FALSE,
               failed |-> FALSE]

\* const MAX_RETRY_LOG = 5
MAX_RETRY_LOG == 5

\* a line of the manager's log: the message and the retryCount printed with it
LogLine(msg, n) == [msg |-> msg, retryCount |-> n]

NoLog == LogLine("", 0)

\* ids of connection objects nothing refers to any more
FreeIds == {i \in ConnIds : ~conns[i].open /\ channel # i}

NewId == CHOOSE i \in FreeIds : \A j \in FreeIds : i <= j

Steps == <<"connect", "createChannel", "assertExchange", "assertQueue", "bindQueue">>

\* the connection a running connectRabbit() is setting up
InFlight(i) == pc \in {"createChannel", "assertExchange", "assertQueue", "bindQueue"}
               /\ connection = i

ManagerInit ==
    \* module body: the variables are declared, then connectRabbit() is called
    \* and runs up to its first await
    /\ channel = NULL
    /\ connection = NULL
    /\ isConnecting = TRUE
    /\ retryCount = 0
    /\ timers = 0
    /\ pc = "connect"
    /\ conns = [i \in ConnIds |-> ClosedConn]
    /\ managerLog = NoLog

\* connectRabbit() without its guard: every call starts an attempt
ConnectRabbitEntryUnguarded ==
    /\ isConnecting' = TRUE
    /\ pc' = "connect"

\* the entry of connectRabbit(): `if (isConnecting) return; isConnecting = true;`
ConnectRabbitEntry ==
    IF isConnecting
      THEN UNCHANGED <<isConnecting, pc>>
      ELSE isConnecting' = TRUE /\ pc' = "connect"

\* a pending setTimeout(connectRabbit, 5000) fires
TimerFires ==
    /\ timers > 0
    /\ timers' = timers - 1
    /\ ConnectRabbitEntry
    /\ UNCHANGED <<channel, connection, retryCount, conns, managerLog>>
    /\ UNCHANGED <<cfg, httpVars>>

\* connectRabbit() is called while an earlier call is still awaiting the broker
ConcurrentCall ==
    /\ isConnecting
    /\ ConnectRabbitEntry
    /\ UNCHANGED <<channel, connection, retryCount, timers, conns, managerLog>>
    /\ UNCHANGED <<cfg, httpVars>>

\* connection = await amqp.connect(RABBIT_URL)
ConnectResolves ==
    /\ pc = "connect"
    /\ FreeIds # {}
    /\ connection' = NewId
    /\ conns' = [conns EXCEPT ![NewId] =
                    [open |-> TRUE, channelOpen |-> FALSE, handlers |-> FALSE, failed |-> FALSE]]
    /\ pc' = "createChannel"
    /\ UNCHANGED <<channel, isConnecting, retryCount, timers, managerLog>>
    /\ UNCHANGED <<cfg, httpVars>>

\* channel = await connection.createChannel()
CreateChannelResolves ==
    /\ pc = "createChannel"
    /\ channel' = connection
    /\ conns' = [conns EXCEPT ![connection].channelOpen = TRUE]
    /\ pc' = "assertExchange"
    /\ UNCHANGED <<connection, isConnecting, retryCount, timers, managerLog>>
    /\ UNCHANGED <<cfg, httpVars>>

\* await channel.assertExchange(...)
AssertExchangeResolves ==
    /\ pc = "assertExchange"
    /\ pc' = "assertQueue"
    /\ UNCHANGED <<channel, connection, isConnecting, retryCount, timers, conns, managerLog>>
    /\ UNCHANGED <<cfg, httpVars>>

\* await channel.assertQueue(...)
AssertQueueResolves ==
    /\ pc = "assertQueue"
    /\ pc' = "bindQueue"
    /\ UNCHANGED <<channel, connection, isConnecting, retryCount, timers, conns, managerLog>>
    /\ UNCHANGED <<cfg, httpVars>>

\* await channel.bindQueue(...) resolves; the rest of the try block runs:
\* the close and error handlers are registered, retryCount is reset
BindQueueResolves ==
    /\ pc = "bindQueue"
    /\ conns' = [conns EXCEPT ![connection].handlers = TRUE]
    /\ managerLog' = IF retryCount > 0
                       THEN LogLine("RabbitMQ reconectado", retryCount)
                       ELSE LogLine("RabbitMQ conectado", 0)
    /\ retryCount' = 0
    /\ isConnecting' = FALSE
    /\ pc' = "idle"
    /\ UNCHANGED <<channel, connection, timers>>
    /\ UNCHANGED <<cfg, httpVars>>

\* mutant of LogsFailedAttempt: every failed attempt is logged
LogsEveryAttempt(n) == TRUE

\* `retryCount === 1 || retryCount % MAX_RETRY_LOG === 0`
LogsFailedAttempt(n) == n = 1 \/ n % MAX_RETRY_LOG = 0

\* the catch block of connectRabbit
CatchBlock ==
    /\ retryCount < MaxRetry
    /\ retryCount' = IF cfg.variant = "aggressive" THEN retryCount + 1 ELSE retryCount
    /\ managerLog' = IF cfg.variant = "aggressive" => LogsFailedAttempt(retryCount')
                       THEN LogLine("Tentativa de conexao falhou", retryCount')
                       ELSE managerLog
    /\ isConnecting' = FALSE
    /\ timers' = timers + 1
    /\ pc' = "idle"
    /\ UNCHANGED <<channel, connection>>

\* amqp.connect rejects (broker unreachable)
ConnectRejects ==
    /\ pc = "connect"
    /\ CatchBlock
    /\ UNCHANGED conns
    /\ UNCHANGED <<cfg, httpVars>>

\* createChannel / assertExchange / assertQueue / bindQueue rejects: the step
\* failed on the channel (the transport connection stays open), or the
\* connection was closed without an "error" event (a broker shutdown). No
\* handler is registered yet, so only the catch block runs.
SetupRejects(connectionSurvives) ==
    /\ pc \in {"createChannel", "assertExchange", "assertQueue", "bindQueue"}
    /\ conns' = [conns EXCEPT ![connection] =
                    [open |-> connectionSurvives, channelOpen |-> FALSE,
                     handlers |-> FALSE, failed |-> FALSE]]
    \* further failures are cut off when no connection object would be left for
    \* the next attempt
    /\ \E j \in ConnIds : ~conns'[j].open /\ channel # j
    /\ CatchBlock
    /\ UNCHANGED <<cfg, httpVars>>

\* The connection being set up is lost with an error (socket error, missed
\* heartbeat, fatal close by the broker) and emits "error". The listeners are
\* registered only after bindQueue, so the event is unhandled: it is thrown,
\* process.on("uncaughtException") logs it and calls process.exit(1).
UnhandledConnectionError ==
    /\ pc \in {"createChannel", "assertExchange", "assertQueue", "bindQueue"}
    /\ pc' = "exited"
    /\ conns' = [i \in ConnIds |-> ClosedConn]
    /\ channel' = NULL
    /\ connection' = NULL
    /\ isConnecting' = FALSE
    /\ retryCount' = 0
    /\ timers' = 0
    /\ managerLog' = NoLog
    /\ UNCHANGED <<cfg, httpVars>>

\* the process is running
Running == pc # "exited"

\* mutant of CloseHandler: the handles are cleared but no reconnect is scheduled
CloseHandlerWithoutRetry ==
    /\ channel' = NULL
    /\ connection' = NULL
    /\ isConnecting' = FALSE
    /\ retryCount' = 0
    /\ timers' = timers
    /\ managerLog' = LogLine("Conexao RabbitMQ fechada", 0)

\* mutant of CloseHandler: the channel handle is not cleared
CloseHandlerKeepsChannel ==
    /\ channel' = channel
    /\ connection' = NULL
    /\ isConnecting' = FALSE
    /\ retryCount' = 0
    /\ timers' = timers + 1
    /\ managerLog' = IF cfg.variant = "aggressive" => channel # NULL
                       THEN LogLine("Conexao RabbitMQ fechada", 0)
                       ELSE managerLog

\* connection.on("close", ...) of an established connection
CloseHandler ==
    /\ channel' = NULL
    /\ connection' = NULL
    /\ isConnecting' = FALSE
    /\ retryCount' = 0
    /\ timers' = timers + 1
    /\ managerLog' = IF cfg.variant = "aggressive" => channel # NULL
                       THEN LogLine("Conexao RabbitMQ fechada", 0)
                       ELSE managerLog

\* the broker connection i is lost and emits "close"
ConnectionCloses(i) ==
    /\ conns[i].open
    /\ conns[i].handlers
    /\ conns' = [conns EXCEPT ![i] = ClosedConn]
    /\ CloseHandler
    /\ UNCHANGED pc
    /\ UNCHANGED <<cfg, httpVars>>

\* mutant of ErrorHandler: the error handler starts the recovery itself
ErrorHandlerReconnects ==
    /\ channel' = NULL
    /\ connection' = NULL
    /\ isConnecting' = FALSE
    /\ retryCount' = 0
    /\ timers' = timers + 1
    /\ managerLog' = LogLine("Erro na conexao RabbitMQ", retryCount)

\* connection.on("error", ...) of an established connection: a log line at most
ErrorHandler ==
    /\ managerLog' = IF cfg.variant = "aggressive" => retryCount % MAX_RETRY_LOG = 0
                       THEN LogLine("Erro na conexao RabbitMQ", retryCount)
                       ELSE managerLog
    /\ UNCHANGED <<channel, connection, isConnecting, retryCount, timers>>

\* the broker connection i fails and emits "error"; amqplib emits "close" for
\* it afterwards
ConnectionErrors(i) ==
    /\ conns[i].open
    /\ conns[i].handlers
    /\ ~conns[i].failed
    /\ conns' = [conns EXCEPT ![i].failed = TRUE]
    /\ ErrorHandler
    /\ UNCHANGED pc
    /\ UNCHANGED <<cfg, httpVars>>

\* a connection left open by a failed setup is lost; nothing listens to it
AbandonedConnectionCloses(i) ==
    /\ conns[i].open
    /\ ~conns[i].handlers
    /\ ~InFlight(i)
    /\ conns' = [conns EXCEPT ![i] = ClosedConn]
    /\ UNCHANGED <<channel, connection, isConnecting, retryCount, timers, pc, managerLog>>
    /\ UNCHANGED <<cfg, httpVars>>

\* the channel handle refers to a usable channel
ChannelUsable == channel # NULL /\ conns[channel].open /\ conns[channel].channelOpen

\* a connect() has succeeded and no close event has occurred since
Established == connection # NULL /\ conns[connection].handlers

\* GET /health
HealthStatus == IF channel = NULL THEN 503 ELSE 200

\* ------------------------------------------------------------------ POST /webhook/whatsapp

NoRequest ==
    [userAgent |-> "", signature |-> <<>>, authorization |-> <<>>,
     ip |-> <<>>, cfConnectingIp |-> <<>>, xRealIp |-> <<>>, xForwardedFor |-> <<>>,
     rawBody |-> <<>>, body |-> EmptyObject]

NoResponse ==
    [status |-> 0, message |-> "", published |-> <<>>,
     publishReturned |-> "none", channelSeen |-> "none"]

Reply(status, message) ==
    [status |-> status, message |-> message, published |-> <<>>,
     publishReturned |-> "none", channelSeen |-> "none"]

\* a POST as it arrives: headers and raw body, nothing parsed yet
Arrival(ua, sig, auth, ip, raw) ==
    [userAgent |-> ua, signature |-> sig, authorization |-> auth,
     ip |-> ip, cfConnectingIp |-> <<>>, xRealIp |-> <<>>, xForwardedFor |-> <<>>,
     rawBody |-> raw, body |-> EmptyObject]

\* a POST that arrives through proxies: the transport address and the
\* cf-connecting-ip, x-real-ip and x-forwarded-for headers
ArrivalVia(ua, sig, ip, cf, xReal, xff, raw) ==
    [Arrival(ua, sig, <<>>, ip, raw)
        EXCEPT !.cfConnectingIp = cf, !.xRealIp = xReal, !.xForwardedFor = xff]

\* raw body middleware of the aggressive build: req.body = JSON.parse(raw),
\* or {} when JSON.parse throws
RawBodyCapture(raw) ==
    LET parsed == JSONParse(raw) IN
    IF parsed.ok THEN parsed ELSE EmptyObject

\* express.json({ limit: "2mb" }) of the simple build for a JSON-typed request:
\* strict mode accepts only text that starts an object or an array, and a
\* text JSON.parse rejects is an error (status 400)
ExpressJson(raw) ==
    LET t == StripWs(raw) IN
    IF t = <<>> \/ Head(t) \notin {"{", "["} THEN SyntaxError
    ELSE JSONParse(raw)

\* mutant of PublishStep: the boolean channel.publish returns is ignored
PublishStepIgnoresResult(payload, usable, bufferHasRoom) ==
    LET message == JSONStringify(payload) IN
    IF ~usable
        THEN [status |-> 500, message |-> "Falha ao processar webhook",
              published |-> <<>>, publishReturned |-> "threw",
              channelSeen |-> "closed"]
    ELSE [status |-> 200, message |-> "OK",
          published |-> <<message>>,
          publishReturned |-> (IF bufferHasRoom THEN "true" ELSE "false"),
          channelSeen |-> "open"]

\* mutant of PublishStep: a throwing publish is swallowed and 200 is sent
PublishStepSwallowsThrow(payload, usable, bufferHasRoom) ==
    IF ~usable
        THEN [status |-> 200, message |-> "OK",
              published |-> <<>>, publishReturned |-> "threw",
              channelSeen |-> "closed"]
    ELSE IF ~bufferHasRoom
        THEN [status |-> 503, message |-> "RabbitMQ temporariamente indisponivel",
              published |-> <<JSONStringify(payload)>>, publishReturned |-> "false",
              channelSeen |-> "open"]
    ELSE [status |-> 200, message |-> "OK",
          published |-> <<JSONStringify(payload)>>, publishReturned |-> "true",
          channelSeen |-> "open"]

\* the publish step shared by both handlers: channel.publish(EXCHANGE,
\* ROUTING_KEY, Buffer.from(JSON.stringify(payload)), ...). A closed channel
\* throws (caught: 500); an open one takes the message and returns whether
\* its write buffer is below the high-water mark.
PublishStep(payload, usable, bufferHasRoom) ==
    LET message == JSONStringify(payload) IN
    IF ~usable
        THEN [status |-> 500, message |-> "Falha ao processar webhook",
              published |-> <<>>, publishReturned |-> "threw",
              channelSeen |-> "closed"]
    ELSE IF ~bufferHasRoom
        THEN [status |-> 503, message |-> "RabbitMQ temporariamente indisponivel",
              published |-> <<message>>, publishReturned |-> "false",
              channelSeen |-> "open"]
    ELSE [status |-> 200, message |-> "OK",
          published |-> <<message>>, publishReturned |-> "true",
          channelSeen |-> "open"]

\* payload validation of both handlers: !payload || typeof payload !== "object"
PayloadInvalid(payload) == Falsy(payload) \/ Typeof(payload) # "object"

\* mutant of RelayStep: the channel handle is not checked before the publish
RelayStepWithoutChannelCheck(req, ch, usable, bufferHasRoom) ==
    IF PayloadInvalid(req.body)
        THEN Reply(400, "Payload deve ser um objeto JSON")
    ELSE PublishStep(req.body, usable, bufferHasRoom)

\* mutant of RelayStep: the payload is validated before the channel is read
RelayStepPayloadFirst(req, ch, usable, bufferHasRoom) ==
    IF PayloadInvalid(req.body)
        THEN Reply(400, "Payload deve ser um objeto JSON")
    ELSE IF ch = NULL
        THEN [Reply(503, "Servico temporariamente indisponivel")
                 EXCEPT !.channelSeen = "null"]
    ELSE PublishStep(req.body, usable, bufferHasRoom)

\* channel check, payload check, publish: the part both handlers share
RelayStep(req, ch, usable, bufferHasRoom) ==
    IF ch = NULL
        THEN [Reply(503, "Servico temporariamente indisponivel")
                 EXCEPT !.channelSeen = "null"]
    ELSE IF PayloadInvalid(req.body)
        THEN [Reply(400, "Payload deve ser um objeto JSON")
                 EXCEPT !.channelSeen = IF usable THEN "open" ELSE "closed"]
    ELSE PublishStep(req.body, usable, bufferHasRoom)

\* mutant of PassesAggressiveValidation: both checks required
PassesBothValidations(hasValidSignature, hasValidUserAgent) ==
    hasValidSignature /\ hasValidUserAgent

\* signature-or-user-agent policy of the aggressive handler
PassesAggressiveValidation(hasValidSignature, hasValidUserAgent) ==
    hasValidSignature \/ hasValidUserAgent

\* mutant of RejectsAddress: monitor mode blocks as block mode does
RejectsAddressWhenMonitoring(c, clientIp) ==
    /\ c.META_IP_VALIDATION_MODE \in {"block", "monitor"}
    /\ ~isValidMetaIP(clientIp)
    /\ c.IS_PRODUCTION

\* the address check of the aggressive handler answers 403: block mode, an
\* address outside the allow-list, and NODE_ENV = production
RejectsAddress(c, clientIp) ==
    /\ c.META_IP_VALIDATION_MODE = "block"
    /\ ~isValidMetaIP(clientIp)
    /\ c.IS_PRODUCTION

\* app.post("/webhook/whatsapp") of the aggressive build
AggressivePost(c, req, ch, usable, bufferHasRoom) ==
    LET clientIp          == getClientIP(req)
        hasValidUserAgent == (req.userAgent = META_USER_AGENT)
        hasValidSignature ==
            IF c.APP_SECRET # "" /\ req.signature # <<>>
                THEN validateHubSignature(req.signature, req.rawBody, c.APP_SECRET)
                ELSE FALSE
    IN  IF ~PassesAggressiveValidation(hasValidSignature, hasValidUserAgent)
            THEN Reply(403, "Requisicao nao autorizada")
        ELSE IF RejectsAddress(c, clientIp)
            THEN Reply(403, "IP de origem nao autorizado")
        ELSE RelayStep(req, ch, usable, bufferHasRoom)

\* app.post("/webhook/whatsapp") of the simple build
SimplePost(c, req, ch, usable, bufferHasRoom) ==
    RelayStep(req, ch, usable, bufferHasRoom)

WebhookPost(c, req, ch, usable, bufferHasRoom) ==
    IF c.variant = "aggressive"
        THEN AggressivePost(c, req, ch, usable, bufferHasRoom)
        ELSE SimplePost(c, req, ch, usable, bufferHasRoom)

\* postWebhookLimiter: the hit is counted, and a hit beyond max is answered 429
RateLimited(c, hits) == c.RATE_LIMIT_ENABLED /\ hits + 1 > c.RATE_LIMIT_POST_MAX

CountHit(c, hits) ==
    IF ~c.RATE_LIMIT_ENABLED THEN hits
    ELSE IF hits >= c.RATE_LIMIT_POST_MAX THEN c.RATE_LIMIT_POST_MAX + 1
    ELSE hits + 1

\* a POST arrives and passes the middleware in front of the route: the rate
\* limiter, then the body parser of the build
Receive(req) ==
    /\ Running
    /\ stage = "idle"
    /\ postHits' = CountHit(cfg, postHits)
    /\ IF RateLimited(cfg, postHits)
         THEN /\ request' = req
              /\ response' = Reply(429, "Too Many Requests")
              /\ stage' = "responded"
       ELSE IF cfg.variant = "aggressive"
         THEN /\ request' = [req EXCEPT !.body = RawBodyCapture(req.rawBody)]
              /\ response' = NoResponse
              /\ stage' = "received"
       ELSE IF ~ExpressJson(req.rawBody).ok
         THEN /\ request' = req
              /\ response' = Reply(400, "entity.parse.failed")
              /\ stage' = "responded"
       ELSE /\ request' = [req EXCEPT !.body = ExpressJson(req.rawBody)]
            /\ response' = NoResponse
            /\ stage' = "received"
    /\ UNCHANGED <<cfg, managerVars, getVars>>

\* the route handler runs, in one turn of the event loop
HandlePost ==
    /\ Running
    /\ stage = "received"
    /\ \E bufferHasRoom \in BOOLEAN :
          response' = WebhookPost(cfg, request, channel, ChannelUsable, bufferHasRoom)
    /\ stage' = "responded"
    /\ UNCHANGED <<cfg, managerVars, postHits, request, getVars>>

\* the response has been sent; nothing of the request is retained
Finish ==
    /\ Running
    /\ stage = "responded"
    /\ stage' = "idle"
    /\ request' = NoRequest
    /\ response' = NoResponse
    /\ UNCHANGED <<cfg, managerVars, postHits, getVars>>

\* the rate limiter's window (windowMs) elapses
WindowElapses ==
    /\ Running
    /\ cfg.RATE_LIMIT_ENABLED
    /\ postHits > 0
    /\ postHits' = 0
    /\ UNCHANGED <<cfg, managerVars, stage, request, response, getVars>>

\* ------------------------------------------------------------------ GET /webhook/whatsapp

\* A query string is a sequence of characters. Parameter names and the words
\* "subscribe", "unsubscribe" and the tokens are single symbols of that
\* sequence; the characters of a challenge are one symbol each.

\* a query parameter: undefined, or a string
Absent == [present |-> FALSE, text |-> <<>>]

Param(text) == [present |-> TRUE, text |-> text]

\* the characters challenges are written in: a letter, and punctuation that is
\* reserved in a query string
ChallengeChars == {"x", "&", "+", "%", "=", " "}

\* ASCII code of a character
CharCode(c) ==
    CASE c = " " -> 32
      [] c = "%" -> 37
      [] c = "&" -> 38
      [] c = "+" -> 43
      [] c = "=" -> 61
      [] c = "x" -> 120
      [] OTHER -> 0

\* the character with a given code ("?" for codes outside ChallengeChars)
CharOfCode(n) ==
    IF \E c \in ChallengeChars : CharCode(c) = n
        THEN CHOOSE c \in ChallengeChars : CharCode(c) = n
        ELSE "?"

\* what the caller's HTTP client does to a parameter value: every character
\* that is reserved in a query string is written %XX (encodeURIComponent)
RECURSIVE EncodeURIComponent(_)
EncodeURIComponent(s) ==
    IF s = <<>> THEN <<>>
    ELSE LET c == Head(s) IN
         (IF c \in {"&", "+", "%", "=", " "}
            THEN <<"%", UpperHex[(CharCode(c) \div 16) + 1], UpperHex[(CharCode(c) % 16) + 1]>>
            ELSE <<c>>)
         \o EncodeURIComponent(Tail(s))

\* name=value of a present parameter, as a list of zero or one parts
QueryPart(name, p) ==
    IF p.present THEN << <<name, "=">> \o EncodeURIComponent(p.text) >> ELSE <<>>

RECURSIVE JoinParts(_)
JoinParts(parts) ==
    IF parts = <<>> THEN <<>>
    ELSE IF Len(parts) = 1 THEN parts[1]
    ELSE parts[1] \o <<"&">> \o JoinParts(Tail(parts))

\* the query string of a verification GET with the given parameters
BuildQuery(sent) ==
    JoinParts(QueryPart("hub.mode", sent.mode)
              \o QueryPart("hub.challenge", sent.challenge)
              \o QueryPart("hub.verify_token", sent.verifyToken))

\* first position of c in s, 0 if there is none
FirstIndex(s, c) ==
    IF \E i \in 1..Len(s) : s[i] = c
        THEN CHOOSE i \in 1..Len(s) : s[i] = c /\ \A j \in 1..(i - 1) : s[j] # c
        ELSE 0

\* str.split(sep)
RECURSIVE Split(_, _)
Split(s, sep) ==
    LET i == FirstIndex(s, sep) IN
    IF i = 0 THEN <<s>>
    ELSE <<SubSeq(s, 1, i - 1)>> \o Split(SubSeq(s, i + 1, Len(s)), sep)

\* str.replace(/\+/g, ' ')
RECURSIVE PlusToSpace(_)
PlusToSpace(s) ==
    IF s = <<>> THEN <<>>
    ELSE <<IF Head(s) = "+" THEN " " ELSE Head(s)>> \o PlusToSpace(Tail(s))

\* decodeURIComponent: every %XX becomes the character of that code; a "%" that
\* two hex digits do not follow is a URIError
RECURSIVE UriDecode(_)
UriDecode(s) ==
    IF s = <<>> THEN [ok |-> TRUE, text |-> <<>>]
    ELSE IF Head(s) = "%"
        THEN IF Len(s) >= 3 /\ HexValue(s[2]) >= 0 /\ HexValue(s[3]) >= 0
               THEN LET rest == UriDecode(SubSeq(s, 4, Len(s))) IN
                    [ok |-> rest.ok,
                     text |-> <<CharOfCode(16 * HexValue(s[2]) + HexValue(s[3]))>>
                              \o rest.text]
               ELSE [ok |-> FALSE, text |-> <<>>]
    ELSE LET rest == UriDecode(Tail(s)) IN
         [ok |-> rest.ok, text |-> <<Head(s)>> \o rest.text]

\* mutant of QueryDecode: %XX escapes are left as they are
QueryDecodeKeepsEscapes(s) == PlusToSpace(s)

\* the decoder of the query parser: "+" is a space, then decodeURIComponent;
\* text decodeURIComponent rejects is kept as it is
QueryDecode(s) ==
    LET strWithoutPlus == PlusToSpace(s)
        decoded        == UriDecode(strWithoutPlus)
    IN  IF decoded.ok THEN decoded.text ELSE strWithoutPlus

\* req.query[name]: the query string is split at "&", each part at its first
\* "="; the value is decoded. (No request repeats a parameter.)
QueryParam(query, name) ==
    LET parts    == Split(query, "&")
        keyOf(i) == LET e == FirstIndex(parts[i], "=") IN
                    IF e = 0 THEN parts[i] ELSE SubSeq(parts[i], 1, e - 1)
        valOf(i) == LET e == FirstIndex(parts[i], "=") IN
                    IF e = 0 THEN <<>> ELSE SubSeq(parts[i], e + 1, Len(parts[i]))
        hits     == {i \in 1..Len(parts) : keyOf(i) = <<name>>}
    IN  IF hits = {} THEN Absent
        ELSE Param(QueryDecode(valOf(CHOOSE i \in hits : \A j \in hits : i <= j)))

GetReply(status, body) == [status |-> status, body |-> body]

\* mutant of WebhookGet: the challenge is validated before the verify token
WebhookGetChallengeFirst(c, query) ==
    LET mode        == QueryParam(query, "hub.mode")
        challenge   == QueryParam(query, "hub.challenge")
        verifyToken == QueryParam(query, "hub.verify_token")
    IN  IF ~(mode.present /\ mode.text = <<"subscribe">>)
            THEN GetReply(400, <<"Invalid mode">>)
        ELSE IF ~challenge.present \/ challenge.text = <<>>
            THEN GetReply(400, <<"Missing challenge">>)
        ELSE IF /\ c.WEBHOOK_SECRET # ""
                /\ ~(/\ verifyToken.present /\ verifyToken.text # <<>>
                     /\ verifyToken.text = <<c.WEBHOOK_SECRET>>)
            THEN GetReply(403, <<"Invalid verify token">>)
        ELSE GetReply(200, challenge.text)

\* mutant of WebhookGet: the verify token is checked whether or not a secret is
\* configured
WebhookGetAlwaysChecksToken(c, query) ==
    LET mode        == QueryParam(query, "hub.mode")
        challenge   == QueryParam(query, "hub.challenge")
        verifyToken == QueryParam(query, "hub.verify_token")
    IN  IF ~(mode.present /\ mode.text = <<"subscribe">>)
            THEN GetReply(400, <<"Invalid mode">>)
        ELSE IF ~(/\ verifyToken.present /\ verifyToken.text # <<>>
                  /\ verifyToken.text = <<c.WEBHOOK_SECRET>>)
            THEN GetReply(403, <<"Invalid verify token">>)
        ELSE IF ~challenge.present \/ challenge.text = <<>>
            THEN GetReply(400, <<"Missing challenge">>)
        ELSE GetReply(200, challenge.text)

\* app.get("/webhook/whatsapp") of the signature / user-agent build
WebhookGet(c, query) ==
    LET mode        == QueryParam(query, "hub.mode")
        challenge   == QueryParam(query, "hub.challenge")
        verifyToken == QueryParam(query, "hub.verify_token")
    IN  IF ~(mode.present /\ mode.text = <<"subscribe">>)
            THEN GetReply(400, <<"Invalid mode">>)
        ELSE IF /\ c.WEBHOOK_SECRET # ""
                /\ ~(/\ verifyToken.present /\ verifyToken.text # <<>>
                     /\ verifyToken.text = <<c.WEBHOOK_SECRET>>)
            THEN GetReply(403, <<"Invalid verify token">>)
        ELSE IF ~challenge.present \/ challenge.text = <<>>
            THEN GetReply(400, <<"Missing challenge">>)
        ELSE GetReply(200, challenge.text)     \* res.end(String(challenge))

\* getWebhookLimiter: the hit is counted, and a hit beyond max is answered 429
GetRateLimited(c, hits) == c.RATE_LIMIT_ENABLED /\ hits + 1 > c.RATE_LIMIT_GET_MAX

CountGetHit(c, hits) ==
    IF ~c.RATE_LIMIT_ENABLED THEN hits
    ELSE IF hits >= c.RATE_LIMIT_GET_MAX THEN c.RATE_LIMIT_GET_MAX + 1
    ELSE hits + 1

\* mutant of GetAnswer: a challenge is answered once; a repeated call is refused
GetAnswerOnce(c, hits, query) ==
    IF c.variant = "simple" THEN GetReply(404, <<"Cannot GET /webhook/whatsapp">>)
    ELSE IF GetRateLimited(c, hits) THEN GetReply(429, <<"Too Many Requests">>)
    ELSE IF hits > 0 THEN GetReply(403, <<"Invalid verify token">>)
    ELSE GetReply(200, QueryParam(query, "hub.challenge").text)

\* the answer to GET /webhook/whatsapp?<query>: the rate limiter, then the
\* route; the simple build defines no such route
GetAnswer(c, hits, query) ==
    IF c.variant = "simple" THEN GetReply(404, <<"Cannot GET /webhook/whatsapp">>)
    ELSE IF GetRateLimited(c, hits) THEN GetReply(429, <<"Too Many Requests">>)
    ELSE WebhookGet(c, query)

NoHandshake == [sent |-> [mode |-> Absent, challenge |-> Absent, verifyToken |-> Absent],
                query |-> <<>>, status |-> 0, body |-> <<>>, calls |-> 0]

\* a caller sends a verification GET
ReceiveGet(sent) ==
    /\ Running
    /\ handshake = NoHandshake
    /\ LET query == BuildQuery(sent)
           reply == GetAnswer(cfg, getHits, query)
       IN  handshake' = [sent |-> sent, query |-> query,
                         status |-> reply.status, body |-> reply.body, calls |-> 1]
    /\ getHits' = CountGetHit(cfg, getHits)
    /\ UNCHANGED <<cfg, managerVars, postHits, stage, request, response, probe>>

\* the caller sends the same GET again
RepeatGet ==
    /\ Running
    /\ handshake # NoHandshake
    /\ handshake.calls <= MaxGetRate
    /\ LET reply == GetAnswer(cfg, getHits, handshake.query)
       IN  handshake' = [handshake EXCEPT !.status = reply.status,
                                          !.body = reply.body,
                                          !.calls = @ + 1]
    /\ getHits' = CountGetHit(cfg, getHits)
    /\ UNCHANGED <<cfg, managerVars, postHits, stage, request, response, probe>>

\* the exchange is over; the relay retains nothing of it
FinishGet ==
    /\ Running
    /\ handshake # NoHandshake
    /\ handshake' = NoHandshake
    /\ UNCHANGED <<cfg, managerVars, postHits, stage, request, response, getHits, probe>>

\* the GET rate limiter's window (windowMs) elapses
GetWindowElapses ==
    /\ Running
    /\ cfg.RATE_LIMIT_ENABLED
    /\ getHits > 0
    /\ getHits' = 0
    /\ UNCHANGED <<cfg, managerVars, postHits, stage, request, response, handshake, probe>>

\* ------------------------------------------------------------------ specifications

\* POSTs of the complete system: one per outcome of the handler's checks
SomeRequests ==
    { Arrival(ua, <<>>, <<>>, <<10, 0, 0, 1>>, raw) :
        ua \in {META_USER_AGENT, ""},
        raw \in {RawBodyList[1], RawBodyList[7]} }

\* every POST of the bounded input space: all user agents, signatures, caller
\* addresses and bodies, and every Authorization header with every user agent
\* and body
AllRequests ==
    UNION { { Arrival(ua, sig, <<>>, ip, raw) :
                ua \in UserAgents, sig \in SignatureHeaders(raw), ip \in ClientIPs }
            \cup
            { Arrival(ua, <<>>, auth, <<10, 0, 0, 1>>, raw) :
                ua \in UserAgents, auth \in AuthHeaders } : raw \in RawBodies }

HttpInit ==
    /\ postHits = 0
    /\ stage = "idle"
    /\ request = NoRequest
    /\ response = NoResponse
    /\ getHits = 0
    /\ handshake = NoHandshake
    /\ probe = NoProbe

Manager ==
    \/ TimerFires
    \/ ConnectResolves
    \/ ConnectRejects
    \/ CreateChannelResolves
    \/ AssertExchangeResolves
    \/ AssertQueueResolves
    \/ BindQueueResolves
    \/ \E connectionSurvives \in BOOLEAN : SetupRejects(connectionSurvives)
    \/ \E i \in ConnIds : ConnectionErrors(i)
    \/ \E i \in ConnIds : ConnectionCloses(i)
    \/ \E i \in ConnIds : AbandonedConnectionCloses(i)
    \/ UnhandledConnectionError

\* the complete system: the connection manager and the HTTP side interleaved
SystemConfigs ==
    { c \in Configs :
        \/ c.variant = "simple"
        \/ /\ c.WEBHOOK_SECRET = "" /\ c.APP_SECRET = ""
           /\ c.META_IP_VALIDATION_MODE = "monitor" }

Init ==
    /\ cfg \in SystemConfigs
    /\ ManagerInit
    /\ HttpInit

Next ==
    \/ Manager
    \/ \E req \in SomeRequests : Receive(req)
    \/ HandlePost
    \/ Finish
    \/ WindowElapses

Spec == Init /\ [][Next]_vars

\* The connection manager alone, with the fairness its scheduling gives: a
\* pending timer fires, and a pending await of the running connect() settles.
\* Whether it settles by resolving is the broker's choice, not a fairness
\* condition: only an await that stays pending is excluded.
ManagerFairness ==
    /\ WF_vars(TimerFires)
    /\ WF_vars(ConnectResolves \/ ConnectRejects)
    /\ WF_vars(CreateChannelResolves \/ AssertExchangeResolves
                \/ AssertQueueResolves \/ BindQueueResolves
                \/ (\E b \in BOOLEAN : SetupRejects(b))
                \/ UnhandledConnectionError)

InitLive ==
    /\ cfg \in SystemConfigs
    /\ ManagerInit
    /\ HttpInit

NextLive == Manager

SpecLive == InitLive /\ [][NextLive]_vars /\ ManagerFairness

\* The connection manager with connectRabbit() also called during an attempt.
SpecReentry == InitLive /\ [][Manager \/ ConcurrentCall]_vars

\* The relay handler over its whole input space. The handler reads the manager's
\* state and never writes it, so the manager is held at each of the states a
\* handler can meet: no channel yet, an established connection, and the channel
\* handle left behind by a setup that failed after createChannel.
ManagerStarting == ManagerInit

ManagerEstablished ==
    /\ channel = 1
    /\ connection = 1
    /\ isConnecting = FALSE
    /\ retryCount = 0
    /\ timers = 0
    /\ pc = "idle"
    /\ conns = [i \in ConnIds |->
                 IF i = 1 THEN [open |-> TRUE, channelOpen |-> TRUE, handlers |-> TRUE,
                                failed |-> FALSE]
                 ELSE ClosedConn]
    /\ managerLog = LogLine("RabbitMQ conectado", 0)

ManagerSetupFailed ==
    /\ channel = 1
    /\ connection = 1
    /\ isConnecting = FALSE
    /\ retryCount = (IF cfg.variant = "aggressive" THEN 1 ELSE 0)
    /\ timers = 1
    /\ pc = "idle"
    /\ conns = [i \in ConnIds |->
                 IF i = 1 THEN [open |-> TRUE, channelOpen |-> FALSE, handlers |-> FALSE,
                                failed |-> FALSE]
                 ELSE ClosedConn]
    /\ managerLog = LogLine("Tentativa de conexao falhou", retryCount)

InitRelay ==
    /\ cfg \in Configs
    /\ ManagerStarting \/ ManagerEstablished \/ ManagerSetupFailed
    /\ HttpInit

NextRelay ==
    \/ \E req \in AllRequests : Receive(req)
    \/ HandlePost
    \/ Finish
    \/ WindowElapses

SpecRelay == InitRelay /\ [][NextRelay]_vars

\* The verification handshake over its whole input space, with the manager held
\* before its first connection and at an established one.

\* strings over ChallengeChars of at most n characters
RECURSIVE StringsUpTo(_)
StringsUpTo(n) ==
    IF n = 0 THEN {<<>>}
    ELSE LET shorter == StringsUpTo(n - 1) IN
         shorter \cup {<<c>> \o s : c \in ChallengeChars, s \in {x \in shorter : Len(x) = n - 1}}

\* the verification GETs of the bounded input space
GetRequests ==
    { [mode |-> m, challenge |-> ch, verifyToken |-> vt] :
        m  \in {Absent, Param(<<"subscribe">>), Param(<<"unsubscribe">>)},
        ch \in {Absent} \cup {Param(s) : s \in StringsUpTo(MaxChallengeLen)},
        vt \in {Absent, Param(<<TheWebhookSecret>>), Param(<<"wrong-token">>)} }

HandshakeConfigs ==
    { c \in Configs :
        \/ c.variant = "simple"
        \/ c.APP_SECRET = "" /\ c.META_IP_VALIDATION_MODE = "monitor" }

InitHandshake ==
    /\ cfg \in HandshakeConfigs
    /\ ManagerStarting \/ ManagerEstablished
    /\ HttpInit

NextHandshake ==
    \/ \E sent \in GetRequests : ReceiveGet(sent)
    \/ RepeatGet
    \/ FinishGet
    \/ GetWindowElapses

SpecHandshake == InitHandshake /\ [][NextHandshake]_vars

\* The address check of the aggressive handler: POSTs that pass or fail the
\* signature/user-agent policy, from Meta and other transport addresses, with
\* and without the proxy headers; the manager is frozen with a usable channel.
HeaderIPs == { <<>>, <<157, 240, 1, 1>>, <<10, 0, 0, 1>> }

ForwardedFor ==
    { <<>>, << <<157, 240, 1, 1>>, <<10, 0, 0, 1>> >>,
      << <<10, 0, 0, 1>>, <<157, 240, 1, 1>> >>,
      << <<>>, <<157, 240, 1, 1>> >> }              \* " ,157.240.1.1"

AddressRequests ==
    { ArrivalVia(ua, sig, ip, cf, xReal, xff, RawBodyList[1]) :
        ua \in {META_USER_AGENT, "curl/8.0"},
        sig \in {<<>>, <<"sha256=">> \o HexEncode(HmacSha256(TheAppSecret, RawBodyList[1]))},
        ip \in ClientIPs \cup {<<10755, 10368, DoubleColon, 1>>},
        cf \in HeaderIPs, xReal \in HeaderIPs, xff \in ForwardedFor }

InitAddress ==
    /\ cfg \in {c \in AggressiveConfigs : c.WEBHOOK_SECRET = ""}
    /\ ManagerEstablished
    /\ HttpInit

NextAddress ==
    \/ \E req \in AddressRequests : Receive(req)
    \/ HandlePost
    \/ Finish
    \/ WindowElapses

SpecAddress == InitAddress /\ [][NextAddress]_vars

\* isIPInCIDR alone: every probe address against every range of the allow-list.
InitCidr ==
    /\ cfg \in {c \in AggressiveConfigs : c.META_IP_VALIDATION_MODE = "block"}
    /\ ManagerStarting
    /\ postHits = 0
    /\ stage = "idle"
    /\ request = NoRequest
    /\ response = NoResponse
    /\ getHits = 0
    /\ handshake = NoHandshake
    /\ \E ip \in ProbeIPs, cidr \in META_IP_RANGES :
          probe = [ip |-> ip, cidr |-> cidr, done |-> FALSE, result |-> FALSE]

SpecCidr == InitCidr /\ [][CheckCIDR]_vars


\* ------------------------------------------------------------------ claims: vocabulary

\* a POST has been answered
Answered == stage = "responded"

\* the answer came from the route handler, not from the middleware before it
AnsweredByHandler ==
    /\ Answered
    /\ response.status # 429
    /\ response.message # "entity.parse.failed"

\* the body is the text of a JSON object
BodyIsObject ==
    JSONParse(request.rawBody).ok /\ JSONParse(request.rawBody).type = "object"

\* check (a): a signing secret is configured, a signature header is present and
\* the hash it carries is the HMAC-SHA256 of the raw request bytes
SignatureCheckPasses ==
    /\ cfg.APP_SECRET # ""
    /\ request.signature # <<>>
    /\ HexDecode(StripSha256Prefix(request.signature))
         = HmacSha256(cfg.APP_SECRET, request.rawBody)

\* check (b): the User-Agent is the expected one
UserAgentCheckPasses == request.userAgent = META_USER_AGENT

\* the hard-block address check rejects the caller
AddressBlocked ==
    /\ cfg.META_IP_VALIDATION_MODE = "block"
    /\ cfg.IS_PRODUCTION
    /\ ~isValidMetaIP(getClientIP(request))

\* the authorization of the build is satisfied
AuthorizationSatisfied ==
    \/ cfg.variant = "simple"
    \/ /\ cfg.variant = "aggressive"
       /\ SignatureCheckPasses \/ UserAgentCheckPasses
       /\ ~AddressBlocked

\* the Authorization header is "Bearer <the configured secret>"
BearerTokenMatches ==
    /\ Len(request.authorization) = 2
    /\ request.authorization[1] = "Bearer"
    /\ request.authorization[2] = cfg.WEBHOOK_SECRET

\* ------------------------------------------------------------------ claims

\* C1 (as stated; refuted): every POST of a JSON object with satisfied
\* authorization and a live channel is answered 200 and makes exactly one
\* publish call, whose body is the JSON serialization of the object.
C1_Original ==
    (Answered /\ BodyIsObject /\ AuthorizationSatisfied /\ ChannelUsable)
        => /\ response.status = 200
           /\ response.published = <<JSONStringify(JSONParse(request.rawBody))>>

\* C1 (amended): every POST of a JSON object with satisfied authorization, within
\* the rate limit, and with a live channel makes exactly one publish call, whose
\* body is the JSON serialization of the object; it is answered 200 when that
\* call returns true and 503 when it returns false.
C1_PublishOnceSerialized ==
    (AnsweredByHandler /\ BodyIsObject /\ AuthorizationSatisfied /\ ChannelUsable)
        => /\ response.published = <<JSONStringify(JSONParse(request.rawBody))>>
           /\ response.publishReturned \in {"true", "false"}
           /\ response.status = (IF response.publishReturned = "true" THEN 200 ELSE 503)

\* C1 witness: a body with insignificant whitespace, published re-serialized, 200
C1_Witness ==
    /\ Answered /\ AuthorizationSatisfied /\ ChannelUsable
    /\ request.rawBody = RawBodyList[2]
    /\ response.status = 200
    /\ response.published = << RawBodyList[1] >>

\* C2 (refuted by the code): a POST whose body is unparseable JSON and that
\* reaches payload handling is answered 400 and publishes nothing, in every
\* broker state.
C2_MalformedIs400 ==
    (AnsweredByHandler /\ AuthorizationSatisfied /\ ~JSONParse(request.rawBody).ok)
        => response.status = 400 /\ response.published = <<>>

\* C3 (refuted by the code): a POST whose body is valid JSON but not an object
\* (string, number, null, array) is answered 400 and publishes nothing.
C3_NonObjectIs400 ==
    (/\ AnsweredByHandler /\ AuthorizationSatisfied /\ ChannelUsable
     /\ JSONParse(request.rawBody).ok /\ JSONParse(request.rawBody).type # "object")
        => response.status = 400 /\ response.published = <<>>

C5_BadSignatureIs401 ==
    (/\ AnsweredByHandler /\ cfg.variant = "aggressive"
     /\ cfg.APP_SECRET # "" /\ ~SignatureCheckPasses)
        => response.status = 401 /\ response.published = <<>>

\* C6 (refuted by the code): with WEBHOOK_SECRET configured, a POST whose
\* Authorization header is missing, not of the form "Bearer <token>", or carries
\* another token is answered 401 and publishes nothing.
C6_BadBearerIs401 ==
    (AnsweredByHandler /\ cfg.WEBHOOK_SECRET # "" /\ ~BearerTokenMatches)
        => response.status = 401 /\ response.published = <<>>

\* C7 (refuted by the code): with no WEBHOOK_SECRET configured, a POST of a JSON
\* object without Authorization header is accepted: with a live channel (whose
\* write buffer has room) it is published once and answered 200.
C7_OpenModeAccepts ==
    (/\ AnsweredByHandler /\ cfg.WEBHOOK_SECRET = "" /\ request.authorization = <<>>
     /\ BodyIsObject /\ ChannelUsable /\ response.publishReturned # "false")
        => response.status = 200 /\ Len(response.published) = 1

\* C8 (refuted by the code): whenever no connect() has succeeded since the start
\* or since the last close event, GET /health answers 503 and an authorized POST
\* is answered 503 without a publish attempt.
C8_DownIs503 ==
    ~Established
        => /\ HealthStatus = 503
           /\ (stage = "received" /\ AuthorizationSatisfied)
                 => \A bufferHasRoom \in BOOLEAN :
                      LET r == WebhookPost(cfg, request, channel, ChannelUsable,
                                           bufferHasRoom)
                      IN  r.status = 503 /\ r.publishReturned = "none"

C10_Non200PublishesNothing ==
    (Answered /\ response.status # 200) => response.published = <<>>

\* C11: whenever the publish call of a POST returned false (write buffer of the
\* broker client full), the POST is answered 503, never 200.
C11_BackpressureIs503 ==
    (Answered /\ response.publishReturned = "false") => response.status = 503

\* C11 witness: a POST of a JSON object on a live channel whose publish call
\* returned false, answered 503
C11_Witness ==
    /\ Answered /\ ChannelUsable /\ BodyIsObject
    /\ response.publishReturned = "false"
    /\ response.status = 503

\* the body is JSON text of a string, a number or null: the values the payload
\* check of the handler rejects
BodyIsScalar ==
    /\ JSONParse(request.rawBody).ok
    /\ JSONParse(request.rawBody).type \in {"string", "number", "null"}

\* C12 (as stated; refuted): a POST whose body is not a JSON object is answered
\* 400 whether or not a broker channel is available. Stated on the bodies the
\* payload check does reject (JSON strings, numbers and null).
C12_Original ==
    (AnsweredByHandler /\ AuthorizationSatisfied /\ BodyIsScalar)
        => response.status = 400

\* C12 (amended): the route handler reads the shared channel handle first and
\* validates the payload second. A POST that passes authorization is answered
\* 503 when the handle is null, whatever its body; with a non-null handle a body
\* that is a JSON string, number or null is answered 400; in neither case is a
\* publish call made.
C12_ChannelThenPayload ==
    (AnsweredByHandler /\ AuthorizationSatisfied)
        => /\ channel = NULL
                => /\ response.status = 503
                   /\ response.channelSeen = "null"
                   /\ response.published = <<>>
           /\ (channel # NULL /\ BodyIsScalar)
                => /\ response.status = 400
                   /\ response.published = <<>>
                   /\ response.publishReturned = "none"

\* C12 witness: a JSON string posted while the channel handle is null, answered
\* 503 by the channel check
C12_Witness ==
    /\ AnsweredByHandler /\ AuthorizationSatisfied /\ BodyIsScalar
    /\ channel = NULL
    /\ response.status = 503 /\ response.channelSeen = "null"

\* ------------------------------------------------------------------ claims: verification handshake

\* a verification GET has been answered by the route handler of the build that
\* has one (not by the rate limiter in front of it)
HandshakeHandled ==
    /\ handshake # NoHandshake
    /\ cfg.variant = "aggressive"
    /\ handshake.status # 429

\* the inputs of the handshake, as the caller meant them
ModeIsSubscribe == handshake.sent.mode = Param(<<"subscribe">>)

TokenDefect ==
    /\ cfg.WEBHOOK_SECRET # ""
    /\ handshake.sent.verifyToken # Param(<<cfg.WEBHOOK_SECRET>>)

ChallengeGiven ==
    /\ handshake.sent.challenge.present
    /\ handshake.sent.challenge.text # <<>>

\* C13: the handshake answers 400 for a mode other than "subscribe", else 403
\* for a verify token that is not the configured secret, else 400 for a missing
\* challenge, else 200: of several defects the first in the order mode, token,
\* challenge decides.
C13_DefectOrder ==
    HandshakeHandled
        => handshake.status =
              (IF ~ModeIsSubscribe THEN 400
               ELSE IF TokenDefect THEN 403
               ELSE IF ~ChallengeGiven THEN 400
               ELSE 200)

\* C13 witness: right mode, wrong token and no challenge: the token decides, 403
C13_Witness ==
    /\ HandshakeHandled
    /\ ModeIsSubscribe /\ TokenDefect /\ ~ChallengeGiven
    /\ handshake.sent.verifyToken.present
    /\ handshake.status = 403

\* C14: a successful handshake answers 200 with a body that is, character for
\* character, the challenge the caller put (percent-encoded) into the query
\* string, for every challenge over letters, digits and punctuation.
C14_ChallengeRoundTrip ==
    (HandshakeHandled /\ ModeIsSubscribe /\ ~TokenDefect /\ ChallengeGiven)
        => /\ handshake.status = 200
           /\ handshake.body = handshake.sent.challenge.text

\* C14 witness: the challenge "&+" (both reserved in a query string) came back
\* unchanged
C14_Witness ==
    /\ HandshakeHandled
    /\ handshake.sent.challenge = Param(<<"&", "+">>)
    /\ \E i \in 1..Len(handshake.query) : handshake.query[i] = "%"
    /\ handshake.status = 200
    /\ handshake.body = <<"&", "+">>

\* C15 (as stated; refuted): a repeated verification GET gets the status and
\* body of the call before it, whatever the number of earlier calls.
C15_Original ==
    [][ (handshake' # handshake /\ handshake # NoHandshake /\ handshake' # NoHandshake)
            => /\ handshake'.status = handshake.status
               /\ handshake'.body = handshake.body ]_vars

\* C15 (amended): every verification GET the rate limiter admits gets, for the
\* same inputs, the same status and body: that of the call before it and that
\* of a first call, in every broker state. The route handler mutates no state;
\* the only state a GET changes is the caller's hit count in the rate limiter,
\* which answers 429 once RATE_LIMIT_GET_MAX calls were counted in the window.
C15_IdempotentWithinLimit ==
    [][ (handshake' # handshake /\ handshake' # NoHandshake)
            => /\ (handshake # NoHandshake /\ handshake.status # 429
                     /\ handshake'.status # 429)
                    => /\ handshake'.status = handshake.status
                       /\ handshake'.body = handshake.body
               /\ handshake'.status # 429
                    => GetReply(handshake'.status, handshake'.body)
                         = GetAnswer(cfg, 0, handshake'.query)
               /\ handshake'.status = 429
                    <=> (/\ cfg.variant = "aggressive" /\ cfg.RATE_LIMIT_ENABLED
                         /\ getHits >= cfg.RATE_LIMIT_GET_MAX)
               /\ UNCHANGED <<cfg, managerVars, postHits, stage, request, response>> ]_vars

\* C15 witness: with the rate limiter on and no channel, the second call of a
\* valid handshake was answered 200 like the first
C15_Witness ==
    /\ HandshakeHandled /\ cfg.RATE_LIMIT_ENABLED /\ channel = NULL
    /\ handshake.calls = 2 /\ getHits = 2
    /\ handshake.status = 200

\* C16: with no shared secret configured, a GET with mode "subscribe" and a
\* challenge is answered 200 with the challenge, whatever verify token it
\* carries and also when it carries none.
C16_NoSecretSkipsToken ==
    (HandshakeHandled /\ cfg.WEBHOOK_SECRET = "" /\ ModeIsSubscribe /\ ChallengeGiven)
        => /\ handshake.status = 200
           /\ handshake.body = handshake.sent.challenge.text

\* C16 witness: no secret configured, no verify token sent, answered 200
C16_Witness ==
    /\ HandshakeHandled /\ cfg.WEBHOOK_SECRET = ""
    /\ ~handshake.sent.verifyToken.present
    /\ ModeIsSubscribe /\ ChallengeGiven
    /\ handshake.status = 200

\* ------------------------------------------------------------------ claims: connection manager

\* the transport connections the relay opened that are still open
OpenConnections == {i \in ConnIds : conns[i].open}

\* C17 (refuted by the code): at most one broker connection opened by the relay
\* is open at any time; connect() opens no new transport connection while one
\* it opened earlier is still open.
C17_AtMostOneConnection == Cardinality(OpenConnections) <= 1

\* C18 (refuted by the code): the shared channel handle is non-null only while
\* a connect() that ran to its end (connection, channel, exchange, queue,
\* binding) stands and its connection has not closed; after a connect attempt
\* that failed the handle is null.
C18_HandleOnlyOnSuccess ==
    channel # NULL
        => /\ connection = channel
           /\ conns[channel].open
           /\ conns[channel].channelOpen
           /\ conns[channel].handlers
           /\ pc = "idle"

\* a step in which an established connection emits "close"
CloseEvent == \E i \in ConnIds : conns[i].handlers /\ ~conns'[i].handlers

\* C19 (refuted by the code): the step of a "close" event clears the channel
\* handle and schedules exactly one reconnect attempt, and from then on /health
\* reports unavailable (503) in every state until a connect() has succeeded.
C19_CloseClearsUntilReconnect ==
    [][ /\ CloseEvent => /\ channel' = NULL
                         /\ HealthStatus' = 503
                         /\ timers' = timers + 1
        /\ (HealthStatus = 503 /\ ~Established') => HealthStatus' = 503 ]_vars

\* a step in which the broker, or the way to it, fails the relay
BrokerFailure ==
    \/ ConnectRejects
    \/ \E b \in BOOLEAN : SetupRejects(b)
    \/ \E i \in ConnIds : ConnectionCloses(i)
    \/ UnhandledConnectionError

\* C20 (refuted by the code): no connection failure terminates the process, and
\* every failure is followed by a further timer-driven attempt, without limit:
\* unless failures go on forever, a connect() succeeds in the end and its
\* channel stays.
C20_RetriesForever ==
    /\ [](pc # "exited")
    /\ ([]<><<BrokerFailure>>_vars) \/ (<>[]Established)

\* ---- C21 ----
\* C21: a call to connectRabbit() made while another call is still in progress
\* is a no-op: the handles, the flag, the counter, the position of the attempt
\* in flight, the set of connections and the pending timers all stay as they are.
C21_ReentrantCallIsNoOp ==
    [][ConcurrentCall => UNCHANGED managerVars]_vars

\* an attempt is past its first await, which is where a second call would
\* restart it if the guard were missing
C21_Witness ==
    /\ isConnecting
    /\ ENABLED ConcurrentCall
    /\ pc = "bindQueue"
    /\ connection # NULL

\* ---- C22 ----
\* an established connection has emitted "error" and the handler has run
ErrorEvent == \E i \in ConnIds : conns[i].handlers /\ ~conns[i].failed /\ conns'[i].failed

\* C22: the "error" event of the broker connection leaves the channel handle,
\* the connection handle, the connecting flag and the retry counter as they are
\* and schedules no reconnect (no timer, no attempt); after an "error", a step
\* that clears the handles or schedules a reconnect is the "close" event.
C22_ErrorLeavesStateToClose ==
    [][ /\ ErrorEvent =>
             UNCHANGED <<channel, connection, isConnecting, retryCount, timers, pc>>
        /\ ( /\ \E i \in ConnIds : conns[i].failed
             /\ (timers' # timers \/ channel' # channel \/ isConnecting' # isConnecting) )
             => CloseEvent ]_vars

\* the error handler has run on the established connection, which is still
\* the one the handles refer to
C22_Witness ==
    /\ Established
    /\ conns[connection].failed
    /\ channel = connection
    /\ timers = 0
    /\ managerLog.msg = "Erro na conexao RabbitMQ"

\* ---- C28 ----
\* the eight groups of an IPv6 address, or the four octets of an IPv4 address
AddressGroups(addr) ==
    IF Family(addr) = "v4" THEN addr
    ELSE LET k == GapIndex(addr) IN
         IF k = 0 THEN addr
         ELSE [i \in 1..8 |->
                 IF i < k THEN addr[i]
                 ELSE IF i > 8 - (Len(addr) - k) THEN addr[i - (8 - Len(addr))]
                 ELSE 0]

\* the first `bits` bits of two addresses of one family are equal
PrefixBitsEqual(a, b, bits) ==
    LET width == IF Family(a) = "v4" THEN 8 ELSE 16
        ga    == AddressGroups(a)
        gb    == AddressGroups(b)
    IN  \A i \in 1..Len(ga) :
            LET rest == bits - (i - 1) * width
                kept == IF rest <= 0 THEN 0 ELSE IF rest >= width THEN width ELSE rest
            IN  ga[i] \div Pow2(width - kept) = gb[i] \div Pow2(width - kept)

\* C28 (refuted by the code): for an address and a range of one family,
\* isIPInCIDR returns true exactly when the first `bits` bits of the address
\* equal the first `bits` bits of the range.
C28_CidrIsPrefixMatching ==
    (probe.done /\ Family(probe.ip) = probe.cidr.family)
        => (probe.result <=> PrefixBitsEqual(probe.ip, probe.cidr.range, probe.cidr.bits))

\* ---- C23 ----
\* the POSTs that differ from the one in flight only in the caller's address:
\* the transport address and the proxy headers
SameButAddress ==
    { [r EXCEPT !.body = request.body] :
        r \in { q \in AddressRequests :
                   /\ q.userAgent = request.userAgent
                   /\ q.signature = request.signature
                   /\ q.authorization = request.authorization
                   /\ q.rawBody = request.rawBody } }

\* status and publish of the answer the handler gives to r in this state
SameOutcome(r) ==
    \E bufferHasRoom \in BOOLEAN :
        LET other == WebhookPost(cfg, r, channel, ChannelUsable, bufferHasRoom)
        IN  other.status = response.status /\ other.published = response.published

\* C23: in monitor and disabled modes every POST that differs from the
\* answered one only in the caller's address gets the same status and the same
\* publish; and in every mode a POST that fails the signature/user-agent policy
\* is answered 403 without a publish, whatever its address.
C23_AddressCheckInformative ==
    (AnsweredByHandler /\ cfg.variant = "aggressive")
        => /\ cfg.META_IP_VALIDATION_MODE \in {"monitor", "disabled"}
                => \A r \in SameButAddress : SameOutcome(r)
           /\ ~(SignatureCheckPasses \/ UserAgentCheckPasses)
                => \A r \in SameButAddress \cup {request} :
                      \A b \in BOOLEAN :
                          LET other == WebhookPost(cfg, r, channel, ChannelUsable, b)
                          IN  other.status = 403 /\ other.published = <<>>

\* a POST from an address outside the allow-list is published in monitor mode
C23_Witness ==
    /\ AnsweredByHandler /\ cfg.variant = "aggressive"
    /\ cfg.META_IP_VALIDATION_MODE = "monitor"
    /\ ~isValidMetaIP(getClientIP(request))
    /\ \E r \in SameButAddress : isValidMetaIP(getClientIP(r))
    /\ response.status = 200
    /\ response.published # <<>>

\* ---- C24 ----
\* C24 (refuted by the code): in block mode a POST whose caller address is
\* outside the allow-list is answered 403 and publishes nothing, also when the
\* signature or the user-agent check passed.
C24_BlockModeRejects ==
    ( /\ AnsweredByHandler /\ cfg.variant = "aggressive"
      /\ cfg.META_IP_VALIDATION_MODE = "block"
      /\ ~isValidMetaIP(getClientIP(request)) )
        => response.status = 403 /\ response.published = <<>>

\* ---- C30 ----
\* the first present of cf-connecting-ip, x-real-ip, the first entry of
\* x-forwarded-for and the transport address
FirstPresent(candidates) ==
    LET present == SelectSeq(candidates, LAMBDA a : a # <<>>)
    IN  IF present = <<>> THEN <<>> ELSE Head(present)

EvaluatedAddress(r) ==
    FirstPresent(<< r.cfConnectingIp, r.xRealIp,
                    IF r.xForwardedFor = <<>> THEN <<>> ELSE Head(r.xForwardedFor),
                    r.ip >>)

\* C30: in block mode (production) a POST that passed the signature/user-agent
\* policy is rejected by the address check exactly when the first present of
\* cf-connecting-ip, x-real-ip, first x-forwarded-for entry and transport
\* address is outside the allow-list; the transport address alone does not
\* decide.
C30_HeadersDecideAddress ==
    ( /\ AnsweredByHandler /\ cfg.variant = "aggressive"
      /\ cfg.META_IP_VALIDATION_MODE = "block" /\ cfg.IS_PRODUCTION
      /\ (SignatureCheckPasses \/ UserAgentCheckPasses) )
        => ( response.message = "IP de origem nao autorizado"
               <=> ~isValidMetaIP(EvaluatedAddress(request)) )

\* a POST from a transport address outside the allow-list is accepted in block
\* mode because its x-forwarded-for names a Meta address first, while the same
\* POST without the header is rejected
C30_Witness ==
    /\ AnsweredByHandler /\ cfg.variant = "aggressive"
    /\ cfg.META_IP_VALIDATION_MODE = "block" /\ cfg.IS_PRODUCTION
    /\ ~isValidMetaIP(request.ip)
    /\ request.cfConnectingIp = <<>> /\ request.xRealIp = <<>>
    /\ request.xForwardedFor # <<>>
    /\ response.status = 200
    /\ \A b \in BOOLEAN :
          WebhookPost(cfg, [request EXCEPT !.xForwardedFor = <<>>],
                      channel, ChannelUsable, b).status = 403

\* ---- C25 ----
\* the route handler runs and channel.publish throws
PublishThrows ==
    /\ stage = "received" /\ stage' = "responded"
    /\ response'.publishReturned = "threw"

\* C25: when the publish call of the POST handler throws (the channel or its
\* connection is no longer usable), the handler answers 500, never 200,
\* nothing is published, and the process keeps running with the manager's
\* state untouched.
C25_ThrowIs500 ==
    [][PublishThrows =>
          /\ response'.status = 500
          /\ response'.published = <<>>
          /\ Running'
          /\ UNCHANGED managerVars]_vars

\* a POST was answered 500 after publishing on the handle of a closed channel
C25_Witness ==
    /\ Answered
    /\ response.status = 500
    /\ response.publishReturned = "threw"
    /\ channel # NULL
    /\ ~ChannelUsable
    /\ Running

\* ---- C26 ----
\* an attempt of connectRabbit() fails: its catch block runs
AttemptFails == pc \in {"connect", "createChannel", "assertExchange", "assertQueue", "bindQueue"}
                /\ pc' = "idle" /\ timers' = timers + 1

\* an attempt of connectRabbit() succeeds
AttemptSucceeds == pc = "bindQueue" /\ pc' = "idle" /\ timers' = timers

\* C26: in the build that has the counter, a failed attempt adds one to
\* retryCount and is logged exactly when the new value is 1 or a multiple of 5;
\* a successful attempt leaves it at zero; and whatever the counter is, a
\* failed attempt schedules exactly one retry and ends the attempt.
C26_RetryCounter ==
    [][ cfg.variant = "aggressive" =>
          /\ AttemptFails =>
                /\ retryCount' = retryCount + 1
                /\ (managerLog' = LogLine("Tentativa de conexao falhou", retryCount'))
                      <=> (retryCount' = 1 \/ retryCount' % 5 = 0)
                /\ (managerLog' # managerLog)
                      <=> (retryCount' = 1 \/ retryCount' % 5 = 0)
                /\ timers' = timers + 1 /\ ~isConnecting'
          /\ AttemptSucceeds => retryCount' = 0
          /\ (retryCount' # retryCount /\ ~AttemptFails) => retryCount' = 0 ]_vars

\* the fifth failed attempt in a row has been logged, the ones before it not
C26_Witness ==
    /\ cfg.variant = "aggressive"
    /\ retryCount = 5
    /\ managerLog = LogLine("Tentativa de conexao falhou", 5)
    /\ timers = 1

\* ---- C27 ----
\* the route handler runs and calls channel.publish
PublishCalled ==
    /\ stage = "received" /\ stage' = "responded"
    /\ response'.publishReturned # "none"

\* C27: whatever the connection manager did between the arrival of a POST and
\* its handler, the handler's publish is called on a handle that is not null
\* and is the one the manager exposes in that very step: the handle does not
\* change in the step, and the publish meets the channel in the state the
\* manager's handle refers to.
C27_CheckAndPublishInOneTurn ==
    [][PublishCalled =>
          /\ channel # NULL
          /\ channel' = channel /\ conns' = conns
          /\ (response'.channelSeen = "open") <=> ChannelUsable
          /\ (response'.publishReturned = "threw") <=> ~ChannelUsable ]_vars

\* a publish on the handle of a reconnect: the manager failed, retried and
\* succeeded before the handler ran
C27_Witness ==
    /\ Answered
    /\ response.publishReturned = "true"
    /\ managerLog.msg = "RabbitMQ reconectado"
    /\ ChannelUsable

\* ---- C29 ----
\* a call of connectRabbit() is between its first statement and its end
AttemptInFlight == pc \in {"connect", "createChannel", "assertExchange", "assertQueue", "bindQueue"}

\* C29: while the process runs, at most one reconnect activity exists: at
\* most one retry timer is pending, never together with an attempt in flight
\* (the connecting flag is set exactly during an attempt, so a second attempt
\* cannot start), neither of them while an established connection with its
\* close handler exists; and when the channel handle is null, an attempt is in
\* flight or a retry timer is pending.
C29_OneReconnectActivity ==
    Running =>
        /\ timers <= 1
        /\ ~(timers = 1 /\ AttemptInFlight)
        /\ isConnecting <=> AttemptInFlight
        /\ Established => (timers = 0 /\ ~AttemptInFlight)
        /\ channel = NULL => (AttemptInFlight \/ timers = 1)

\* after a close event: the handle is null and exactly the retry timer of the
\* close handler is pending
C29_Witness ==
    /\ Running
    /\ channel = NULL
    /\ timers = 1
    /\ ~AttemptInFlight
    /\ managerLog.msg = "Conexao RabbitMQ fechada"

=============================================================================
